---- MODULE Spec2Model ----
(***************************************************************************)
(* Model of src/3_deadlock_6510503263/deadlock.py: the ResourceManager     *)
(* (Banker's avoidance / naive detection-mode granting), the worker        *)
(* threads, and the detector/resolver thread.                              *)
(*                                                                         *)
(* Resource vectors are tuples indexed 1..m (Python index k is k+1 here);  *)
(* process ids are 0..n-1 as in the source.  Each action is one section    *)
(* of code executed while holding rm.lock (or one unlocked statement that  *)
(* touches shared state); cv.wait() releases the lock, so a waiting        *)
(* request spans several actions.                                          *)
(***************************************************************************)
EXTENDS Integers, Sequences, FiniteSets, TLC

\* ------------------------------------------------------------ bounds

\* Largest number of units of the first resource type in the generated
\* instances (avoidance-mode runs and direct calls of the manager).
MaxUnits == 2

\* The same for the detection-mode runs of the whole program.
DetUnits == 1

\* Number of nodes of the graphs find_cycle is called on directly.
GraphNodes == 3

\* Units of the first resource type in the three-process states the Banker's
\* check is called on directly.
SafeUnits == 2

\* Detector iteration budget (max_iterations, 200 in the source, scaled down).
MaxIterations == 2

\* bounded_random_request's max_per_step default.
max_per_step == 2

\* ------------------------------------------------------------ state

VARIABLES
    mode,         \* rm.mode: "avoidance" | "detection"
    total,        \* rm.total
    max,          \* rm.max
    available,    \* rm.available
    alloc,        \* rm.alloc
    need,         \* rm.need
    alive,        \* rm.alive
    finished,     \* rm.finished
    notified,     \* rm.cv: notified[i] iff thread i, waiting on cv, has been notified
    pc,           \* position of the thread of process i
    req,          \* the request vector of the call thread i is in (local req)
    timed,        \* whether that call was given a timeout
    waiting_map,  \* the shared waiting_map dict
    dpc,          \* position of the detector thread
    iters,        \* detector_loop's iters
    snap,         \* detector: dict(waiting_map), the argument of build_wait_for_graph
    cyc,          \* detector: cyc (<<>> is None)
    victim,       \* detector: victim (-1 before it is chosen)
    graph,        \* the argument of a direct call of find_cycle (<<>> if none)
    last_blocked, \* history: the number of alive and blocked processes at the
                  \* detector's last tick if it found a cycle, else -1
    last_alive,   \* history: the number of alive processes at the detector's
                  \* last tick if it found a cycle, else -1
    ret           \* the manager call that has just returned to an API caller

mgrvars == <<available, alloc, need, alive, finished>>
cfgvars == <<mode, total, max>>
thrvars == <<pc, req, timed>>
detvars == <<dpc, iters, snap, cyc, victim>>
histvars == <<last_blocked, last_alive>>
vars == <<mode, total, max, available, alloc, need, alive, finished, notified,
          pc, req, timed, waiting_map, dpc, iters, snap, cyc, victim, graph,
          last_blocked, last_alive, ret>>

Procs == DOMAIN max
Res == 1..Len(total)

\* ------------------------------------------------------------ vectors

ZeroVec == [k \in Res |-> 0]
VAdd(a, b) == [k \in DOMAIN a |-> a[k] + b[k]]
VSub(a, b) == [k \in DOMAIN a |-> a[k] - b[k]]
AllZero(v) == \A k \in DOMAIN v : v[k] = 0
Min(a, b) == IF a <= b THEN a ELSE b

RECURSIVE VSum(_)
VSum(v) == IF v = <<>> THEN 0 ELSE Head(v) + VSum(Tail(v))

\* ------------------------------------------------------------ instances

\* Rows a process may declare against `tot`: generate_max_demand draws each
\* entry from 0..total[k] and forces at least one positive entry.
Rows(tot, u) == {r \in [DOMAIN tot -> 0..u] :
                    (\A k \in DOMAIN tot : r[k] <= tot[k]) /\ ~AllZero(r)}

\* Generated instances: two processes over two resource types, up to u units
\* of the first type and one unit of the second, every admissible max_demand.
Family(u) ==
    {c \in {[total |-> <<a, 1>>, max |-> (0 :> r0 @@ 1 :> r1)] :
               a \in 1..u, r0 \in [1..2 -> 0..u], r1 \in [1..2 -> 0..u]} :
        \A i \in DOMAIN c.max : c.max[i] \in Rows(c.total, u)}

Instances == Family(MaxUnits)
DetInstances == Family(DetUnits)

\* The avoidance scenario of the specification: total=[3,3,2], P0 max=[3,0,0],
\* P1 max=[0,3,2].
ScenarioA == [total |-> <<3, 3, 2>>, max |-> (0 :> <<3, 0, 0>> @@ 1 :> <<0, 3, 2>>)]

\* ------------------------------------------------------------ ResourceManager

\* ResourceManager.__init__
InitManager(c, md) ==
    /\ mode = md
    /\ total = c.total
    /\ max = c.max
    /\ available = c.total
    /\ alloc = [i \in DOMAIN c.max |-> [k \in DOMAIN c.total |-> 0]]
    /\ need = c.max
    /\ alive = [i \in DOMAIN c.max |-> TRUE]
    /\ finished = [i \in DOMAIN c.max |-> FALSE]
    /\ notified = [i \in DOMAIN c.max |-> FALSE]

\* _can_grant with `<` for `<=` against available
CanGrantStrict(i, r) == \A k \in Res : 0 <= r[k] /\ r[k] < available[k]

\* _can_grant
CanGrant(i, r) == \A k \in Res : 0 <= r[k] /\ r[k] <= available[k]

\* _apply_grant without `self.need[i][k] -= req[k]`
ApplyGrantKeepNeed(i, r) ==
    /\ available' = VSub(available, r)
    /\ alloc' = [alloc EXCEPT ![i] = VAdd(@, r)]
    /\ need' = need

\* _apply_grant
ApplyGrant(i, r) ==
    /\ available' = VSub(available, r)
    /\ alloc' = [alloc EXCEPT ![i] = VAdd(@, r)]
    /\ need' = [need EXCEPT ![i] = VSub(@, r)]

\* _release_all with alloc zeroed before it is added to available
ReleaseAllRowsLeak(i) ==
    /\ available' = available
    /\ alloc' = [alloc EXCEPT ![i] = ZeroVec]
    /\ need' = [need EXCEPT ![i] = max[i]]

\* _release_all without `self.need[i][k] = self.max[i][k]`
ReleaseAllRowsKeepNeed(i) ==
    /\ available' = VAdd(available, alloc[i])
    /\ alloc' = [alloc EXCEPT ![i] = ZeroVec]
    /\ need' = need

\* _release_all
ReleaseAllRows(i) ==
    /\ available' = VAdd(available, alloc[i])
    /\ alloc' = [alloc EXCEPT ![i] = ZeroVec]
    /\ need' = [need EXCEPT ![i] = max[i]]

\* cv.notify_all(): every thread waiting on cv is notified
NotifyAll == notified' = [j \in Procs |-> notified[j] \/ pc[j] = "waiting"]

\* The Banker's pass without `work[k] += alloc[j][k]`
RECURSIVE BankerPassNoFold(_, _, _, _, _, _)
BankerPassNoFold(work, finish, al, nd, j, progress) ==
    IF j \notin DOMAIN finish
    THEN [work |-> work, finish |-> finish, progress |-> progress]
    ELSE IF ~finish[j] /\ (\A k \in DOMAIN work : nd[j][k] <= work[k])
         THEN BankerPassNoFold(work, [finish EXCEPT ![j] = TRUE], al, nd, j + 1, TRUE)
         ELSE BankerPassNoFold(work, finish, al, nd, j + 1, progress)

\* One pass `for j in range(self.n)` of the Banker's loop, from process j on;
\* yields the work vector, the finish flags and whether progress was made.
RECURSIVE BankerPass(_, _, _, _, _, _)
BankerPass(work, finish, al, nd, j, progress) ==
    IF j \notin DOMAIN finish
    THEN [work |-> work, finish |-> finish, progress |-> progress]
    ELSE IF ~finish[j] /\ (\A k \in DOMAIN work : nd[j][k] <= work[k])
         THEN BankerPass(VAdd(work, al[j]), [finish EXCEPT ![j] = TRUE],
                         al, nd, j + 1, TRUE)
         ELSE BankerPass(work, finish, al, nd, j + 1, progress)

\* _is_safe_after_grant with a single pass `for j in range(self.n)` in place
\* of `while progress:`
BankerLoopOnePass(work, finish, al, nd) ==
    LET p == BankerPass(work, finish, al, nd, 0, FALSE)
    IN  \A j \in DOMAIN finish : p.finish[j]

\* `while progress:` of _is_safe_after_grant, then `all(finish)`
RECURSIVE BankerLoop(_, _, _, _)
BankerLoop(work, finish, al, nd) ==
    LET p == BankerPass(work, finish, al, nd, 0, FALSE)
    IN  IF p.progress
        THEN BankerLoop(p.work, p.finish, al, nd)
        ELSE \A j \in DOMAIN finish : p.finish[j]

\* _is_safe_after_grant with `work = self.available[:]` (req not subtracted)
SafeAfterGrantStaleWork(av, al, nd, fin, alv, i, r) ==
    BankerLoop(av,
               [j \in DOMAIN al |-> fin[j] \/ ~alv[j]],
               [al EXCEPT ![i] = VAdd(@, r)],
               [nd EXCEPT ![i] = VSub(@, r)])

\* _is_safe_after_grant on an explicit manager state
SafeAfterGrant(av, al, nd, fin, alv, i, r) ==
    BankerLoop(VSub(av, r),
               [j \in DOMAIN al |-> fin[j] \/ ~alv[j]],
               [al EXCEPT ![i] = VAdd(@, r)],
               [nd EXCEPT ![i] = VSub(@, r)])

\* _is_safe_after_grant
IsSafeAfterGrant(i, r) == SafeAfterGrant(available, alloc, need, finished, alive, i, r)

\* The validity test without `req[k] > self.need[i][k]`
InvalidRequestNegOnly(i, r) == \E k \in Res : r[k] < 0

\* request: the validity test `any(req[k] < 0 or req[k] > self.need[i][k] ...)`
InvalidRequest(i, r) == \E k \in Res : r[k] < 0 \/ r[k] > need[i][k]

\* The grant test with the Banker's check run on the state before the grant
GrantableSafeBefore(i, r) ==
    IF mode = "avoidance"
    THEN CanGrant(i, r) /\ IsSafeAfterGrant(i, ZeroVec)
    ELSE CanGrant(i, r)

\* The grant test without the Banker's check in avoidance mode
GrantableNoSafety(i, r) == CanGrant(i, r)

\* request: the grant test of the mode
Grantable(i, r) ==
    IF mode = "avoidance"
    THEN CanGrant(i, r) /\ IsSafeAfterGrant(i, r)
    ELSE CanGrant(i, r)

\* request: what one lock-holding section of the call can end in.  phase is
\* "enter" (the call starts), "notified" (cv.wait returned on notify_all) or
\* "expired" (cv.wait returned because `remaining` ran out).  "invalid",
\* "dead" and "timeout" return False, "grant" returns True, "wait" blocks on cv.
\* Elapsed time is not modelled: where `remaining == 0.0` depends on the clock
\* both outcomes are possible.
Outcomes(i, r, t, phase) ==
    IF phase = "enter" /\ InvalidRequest(i, r) THEN {"invalid"}
    ELSE IF ~(alive[i] /\ ~finished[i]) THEN {"dead"}
    ELSE IF Grantable(i, r) THEN {"grant"}
    ELSE IF ~t THEN {"wait"}
    ELSE IF phase = "expired" THEN {"timeout"}
    ELSE {"timeout", "wait"}

\* request granting each resource type on its own: a request that cannot be
\* granted whole still takes the types that fit
RequestPartial(i, r, t, phase) ==
    \E o \in Outcomes(i, r, t, phase) :
        /\ IF o = "grant"
           THEN ApplyGrant(i, r)
           ELSE IF o \in {"wait", "timeout"}
           THEN LET part == [k \in Res |-> IF 0 <= r[k] /\ r[k] <= available[k]
                                           THEN r[k] ELSE 0]
                IN  ApplyGrant(i, part)
           ELSE UNCHANGED <<available, alloc, need>>
        /\ pc' = [pc EXCEPT ![i] = CASE o = "grant" -> "granted"
                                     [] o = "wait" -> "waiting"
                                     [] OTHER -> "denied"]
        /\ notified' = [notified EXCEPT ![i] = FALSE]
        /\ UNCHANGED <<alive, finished>>

\* request: one lock-holding section of the call by the thread of process i
Request(i, r, t, phase) ==
    \E o \in Outcomes(i, r, t, phase) :
        /\ IF o = "grant"
           THEN ApplyGrant(i, r)
           ELSE UNCHANGED <<available, alloc, need>>
        /\ pc' = [pc EXCEPT ![i] = CASE o = "grant" -> "granted"
                                     [] o = "wait" -> "waiting"
                                     [] OTHER -> "denied"]
        /\ notified' = [notified EXCEPT ![i] = FALSE]
        /\ UNCHANGED <<alive, finished>>

\* release_all
ReleaseAll(i) ==
    /\ ReleaseAllRows(i)
    /\ NotifyAll
    /\ UNCHANGED <<alive, finished>>

\* mark_finished
MarkFinished(i) ==
    /\ finished' = [finished EXCEPT ![i] = TRUE]
    /\ NotifyAll
    /\ UNCHANGED <<available, alloc, need, alive>>

\* abort with the guard inverted: `if self.alive[i]: return`
AbortInverted(i) ==
    IF alive[i]
    THEN UNCHANGED <<available, alloc, need, alive, finished, notified>>
    ELSE /\ alive' = [alive EXCEPT ![i] = FALSE]
         /\ ReleaseAllRows(i)
         /\ NotifyAll
         /\ UNCHANGED finished

\* abort
Abort(i) ==
    IF ~alive[i]
    THEN UNCHANGED <<available, alloc, need, alive, finished, notified>>
    ELSE /\ alive' = [alive EXCEPT ![i] = FALSE]
         /\ ReleaseAllRows(i)
         /\ NotifyAll
         /\ UNCHANGED finished

\* ------------------------------------------------------------ wait-for graph

\* The scan of build_wait_for_graph without `not self.finished[j]`
RECURSIVE EdgeScanFinishedHolders(_, _, _, _, _)
EdgeScanFinishedHolders(i, r, k, j, acc) ==
    IF k \notin Res THEN acc
    ELSE IF j \notin Procs THEN EdgeScanFinishedHolders(i, r, k + 1, 0, acc)
    ELSE IF /\ r[k] > available[k]
            /\ i # j /\ alloc[j][k] > 0 /\ alive[j]
            /\ \A x \in 1..Len(acc) : acc[x] # j
         THEN EdgeScanFinishedHolders(i, r, k, j + 1, Append(acc, j))
         ELSE EdgeScanFinishedHolders(i, r, k, j + 1, acc)

\* build_wait_for_graph: the loops `for k in range(self.m)` / `for j in
\* range(self.n)` for one waiting process i, from (k, j) on; acc is graph[i].
RECURSIVE EdgeScan(_, _, _, _, _)
EdgeScan(i, r, k, j, acc) ==
    IF k \notin Res THEN acc
    ELSE IF j \notin Procs THEN EdgeScan(i, r, k + 1, 0, acc)
    ELSE IF /\ r[k] > available[k]
            /\ i # j /\ alloc[j][k] > 0 /\ alive[j] /\ ~finished[j]
            /\ \A x \in 1..Len(acc) : acc[x] # j
         THEN EdgeScan(i, r, k, j + 1, Append(acc, j))
         ELSE EdgeScan(i, r, k, j + 1, acc)

\* build_wait_for_graph returning from inside `for i, req in waiting.items()`:
\* only the first waiting process gets its edges
BuildWaitForGraphFirstOnly(waiting) ==
    [i \in Procs |->
        IF i \in DOMAIN waiting /\ (\A j \in DOMAIN waiting : i <= j)
           /\ alive[i] /\ ~finished[i]
        THEN EdgeScan(i, waiting[i], 1, 0, <<>>)
        ELSE <<>>]

\* build_wait_for_graph: adjacency lists, in insertion order
BuildWaitForGraph(waiting) ==
    [i \in Procs |->
        IF i \in DOMAIN waiting /\ alive[i] /\ ~finished[i]
        THEN EdgeScan(i, waiting[i], 1, 0, <<>>)
        ELSE <<>>]

\* list.index
IndexOf(s, v) == CHOOSE x \in 1..Len(s) : s[x] = v /\ \A y \in 1..(x - 1) : s[y] # v

InSeq(s, v) == \E x \in 1..Len(s) : s[x] = v

\* find_cycle's inner dfs(u): st is [color, stack, cyc]; cyc is <<>> for None.
\* DfsNbrs is the loop `for v in graph.get(u, [])` from the idx-th neighbour on.
RECURSIVE Dfs(_, _, _)
RECURSIVE DfsNbrs(_, _, _, _)
Dfs(g, st, u) ==
    DfsNbrs(g, [st EXCEPT !.color[u] = 1, !.stack = Append(@, u)], u, 1)

DfsNbrs(g, st, u, idx) ==
    IF idx > Len(g[u])
    THEN [st EXCEPT !.color[u] = 2, !.stack = SubSeq(@, 1, Len(@) - 1)]
    ELSE LET v == g[u][idx]
         IN  IF st.color[v] = 0
             THEN LET s2 == Dfs(g, st, v)
                  IN  IF s2.cyc # <<>> THEN s2 ELSE DfsNbrs(g, s2, u, idx + 1)
             ELSE IF st.color[v] = 1 /\ InSeq(st.stack, v)
             THEN [st EXCEPT !.cyc = SubSeq(st.stack, IndexOf(st.stack, v),
                                            Len(st.stack)) \o <<v>>]
             ELSE DfsNbrs(g, st, u, idx + 1)

\* find_cycle running dfs from the first unvisited node only
RECURSIVE FindFromFirstOnly(_, _, _)
FindFromFirstOnly(g, st, u) ==
    IF u \notin DOMAIN g THEN <<>>
    ELSE IF st.color[u] = 0
         THEN Dfs(g, st, u).cyc
         ELSE FindFromFirstOnly(g, st, u + 1)

\* find_cycle: the loop `for u in graph` from node u on (keys are 0..n-1 in order)
RECURSIVE FindFrom(_, _, _)
FindFrom(g, st, u) ==
    IF u \notin DOMAIN g THEN <<>>
    ELSE IF st.color[u] = 0
         THEN LET s2 == Dfs(g, st, u)
              IN  IF s2.cyc # <<>> THEN s2.cyc ELSE FindFrom(g, s2, u + 1)
         ELSE FindFrom(g, st, u + 1)

\* find_cycle
FindCycle(g) ==
    FindFrom(g, [color |-> [u \in DOMAIN g |-> 0], stack |-> <<>>, cyc |-> <<>>], 0)

\* max(victims, key=...) taking the last element with the largest key
RECURSIVE MaxByKeyLast(_, _, _)
MaxByKeyLast(s, key, best) ==
    IF s = <<>> THEN best
    ELSE MaxByKeyLast(Tail(s), key, IF key[Head(s)] >= key[best] THEN Head(s) ELSE best)

\* max(victims, key=...): the first element with the largest key
RECURSIVE MaxByKey(_, _, _)
MaxByKey(s, key, best) ==
    IF s = <<>> THEN best
    ELSE MaxByKey(Tail(s), key, IF key[Head(s)] > key[best] THEN Head(s) ELSE best)

\* The victim chosen as the lowest id among the largest allocation totals
ChooseVictimLowestId(c) ==
    LET members == {c[x] : x \in 1..(Len(c) - 1)}
        top == {i \in members : \A j \in members : VSum(alloc[j]) <= VSum(alloc[i])}
    IN  CHOOSE i \in top : \A j \in top : i <= j

\* detector_loop: victims = cyc[:-1]; alloc_sums; victim = max(victims, key=...)
ChooseVictim(c) ==
    LET victims == SubSeq(c, 1, Len(c) - 1)
        alloc_sums == [i \in Procs |-> VSum(alloc[i])]
    IN  MaxByKey(Tail(victims), alloc_sums, Head(victims))

\* ------------------------------------------------------------ worker thread

\* bounded_random_request: the vectors it can return for a non-zero need
BoundedRandomRequest(nd) ==
    {r \in [DOMAIN nd -> 0..max_per_step] :
        (\A k \in DOMAIN nd : r[k] <= Min(nd[k], max_per_step)) /\ ~AllZero(r)}

\* worker: top of `while True` (the locked read of alive, finished and need)
\* and the local computation of req that follows it
WorkerLoop(i) ==
    /\ pc[i] = "loop"
    /\ IF ~alive[i] \/ finished[i]
       THEN pc' = [pc EXCEPT ![i] = "exit"] /\ UNCHANGED req
       ELSE IF AllZero(need[i])
       THEN pc' = [pc EXCEPT ![i] = "finish"] /\ UNCHANGED req
       ELSE \E r \in BoundedRandomRequest(need[i]) :
               /\ pc' = [pc EXCEPT ![i] = "call"]
               /\ req' = [req EXCEPT ![i] = r]
    /\ UNCHANGED <<cfgvars, graph, histvars, mgrvars, notified, timed, waiting_map, detvars, ret>>

\* worker: granted = rm.request(i, req, timeout=...), up to its return or cv.wait
WorkerRequest(i) ==
    /\ pc[i] = "call"
    /\ Request(i, req[i], timed[i], "enter")
    /\ UNCHANGED <<cfgvars, graph, histvars, req, timed, waiting_map, detvars, ret>>

\* request: cv.wait returns because notify_all was called
WorkerNotified(i) ==
    /\ pc[i] = "waiting" /\ notified[i]
    /\ Request(i, req[i], timed[i], "notified")
    /\ UNCHANGED <<cfgvars, graph, histvars, req, timed, waiting_map, detvars, ret>>

\* request: cv.wait(timeout=remaining) returns because the time ran out
WorkerExpired(i) ==
    /\ pc[i] = "waiting" /\ timed[i]
    /\ Request(i, req[i], timed[i], "expired")
    /\ UNCHANGED <<cfgvars, graph, histvars, req, timed, waiting_map, detvars, ret>>

\* worker: `if not granted:` records the request in waiting_map (detection mode)
\* and backs off; req is dead afterwards
WorkerDenied(i) ==
    /\ pc[i] = "denied"
    /\ waiting_map' = IF mode = "detection"
                      THEN (i :> req[i]) @@ waiting_map
                      ELSE waiting_map
    /\ pc' = [pc EXCEPT ![i] = "loop"]
    /\ req' = [req EXCEPT ![i] = ZeroVec]
    /\ UNCHANGED <<cfgvars, graph, histvars, mgrvars, notified, timed, detvars, ret>>

\* worker: `else:` waiting_map.pop(i, None)
WorkerGranted(i) ==
    /\ pc[i] = "granted"
    /\ waiting_map' = [j \in DOMAIN waiting_map \ {i} |-> waiting_map[j]]
    /\ pc' = [pc EXCEPT ![i] = "loop"]
    /\ req' = [req EXCEPT ![i] = ZeroVec]
    /\ UNCHANGED <<cfgvars, graph, histvars, mgrvars, notified, timed, detvars, ret>>

\* worker: rm.mark_finished(i)
WorkerFinish(i) ==
    /\ pc[i] = "finish"
    /\ MarkFinished(i)
    /\ pc' = [pc EXCEPT ![i] = "release"]
    /\ UNCHANGED <<cfgvars, graph, histvars, req, timed, waiting_map, detvars, ret>>

\* worker: rm.release_all(i), then return
WorkerRelease(i) ==
    /\ pc[i] = "release"
    /\ ReleaseAll(i)
    /\ pc' = [pc EXCEPT ![i] = "exit"]
    /\ UNCHANGED <<cfgvars, graph, histvars, req, timed, waiting_map, detvars, ret>>

\* worker: any step of the thread of process i
Worker(i) ==
    \/ WorkerLoop(i)
    \/ WorkerRequest(i)
    \/ WorkerNotified(i)
    \/ WorkerExpired(i)
    \/ WorkerDenied(i)
    \/ WorkerGranted(i)
    \/ WorkerFinish(i)
    \/ WorkerRelease(i)

\* ------------------------------------------------------------ detector thread

\* The processes that are alive and blocked: alive, unfinished, with a denied
\* request on record in waiting_map.
Blocked == {i \in Procs : alive[i] /\ ~finished[i] /\ i \in DOMAIN waiting_map}

\* detector_loop: `while iters < max_iterations`, sleep, iters += 1 and the
\* locked test that every process is finished or dead
DetTick ==
    /\ dpc = "sleep"
    /\ IF iters >= MaxIterations
       THEN dpc' = "stopped" /\ UNCHANGED iters
       ELSE /\ iters' = iters + 1
            /\ dpc' = IF \A i \in Procs : finished[i] \/ ~alive[i]
                      THEN "stopped" ELSE "snapshot"
    /\ UNCHANGED <<cfgvars, graph, histvars, mgrvars, notified, thrvars, waiting_map, snap, cyc, victim, ret>>

\* detector_loop: dict(waiting_map), evaluated before build_wait_for_graph
\* takes the lock
DetSnapshot ==
    /\ dpc = "snapshot"
    /\ snap' = waiting_map
    /\ dpc' = "build"
    /\ UNCHANGED <<cfgvars, graph, histvars, mgrvars, notified, thrvars, waiting_map, iters, cyc, victim, ret>>

\* detector_loop: graph = rm.build_wait_for_graph(...); cyc = rm.find_cycle(graph)
DetBuild ==
    /\ dpc = "build"
    /\ LET c == FindCycle(BuildWaitForGraph(snap))
       IN  /\ cyc' = c
           /\ dpc' = IF c = <<>> THEN "sleep" ELSE "victim"
           /\ last_blocked' = IF c = <<>> THEN -1 ELSE Cardinality(Blocked)
           /\ last_alive' = IF c = <<>> THEN -1 ELSE Cardinality({i \in Procs : alive[i]})
    /\ snap' = <<>>
    /\ UNCHANGED <<cfgvars, graph, mgrvars, notified, thrvars, waiting_map, iters, victim, ret>>

\* detector_loop: the locked alloc_sums and the choice of the victim
DetVictim ==
    /\ dpc = "victim"
    /\ victim' = ChooseVictim(cyc)
    /\ dpc' = "abort"
    /\ UNCHANGED <<cfgvars, graph, histvars, mgrvars, notified, thrvars, waiting_map, iters, snap, cyc, ret>>

\* detector_loop without `rm.abort(victim)`: the victim is only announced
DetAbortAnnounceOnly ==
    /\ dpc = "abort"
    /\ dpc' = "sleep"
    /\ cyc' = <<>>
    /\ victim' = -1
    /\ UNCHANGED <<cfgvars, graph, histvars, mgrvars, notified, thrvars, waiting_map, iters, snap, ret>>

\* detector_loop: rm.abort(victim)
DetAbort ==
    /\ dpc = "abort"
    /\ Abort(victim)
    /\ dpc' = "sleep"
    /\ cyc' = <<>>
    /\ victim' = -1
    /\ UNCHANGED <<cfgvars, graph, histvars, thrvars, waiting_map, iters, snap, ret>>

\* detector_loop: any step of the detector thread
Detector ==
    \/ DetTick
    \/ DetSnapshot
    \/ DetBuild
    \/ DetVictim
    \/ DetAbort

\* ------------------------------------------------------------ the program

NoRet == [op |-> "none", i |-> -1, ok |-> TRUE, valid |-> TRUE, was_alive |-> TRUE]

\* main: the manager, one worker per process, and the detector in detection mode
InitThreads(start) ==
    /\ pc = [i \in Procs |-> start]
    /\ req = [i \in Procs |-> ZeroVec]
    /\ timed = [i \in Procs |-> TRUE]
    /\ waiting_map = <<>>
    /\ dpc = IF mode = "detection" /\ start = "loop" THEN "sleep" ELSE "stopped"
    /\ iters = 0
    /\ snap = <<>>
    /\ cyc = <<>>
    /\ victim = -1
    /\ graph = <<>>
    /\ last_blocked = -1
    /\ last_alive = -1
    /\ ret = NoRet

InitAvoid ==
    /\ \E c \in Instances : InitManager(c, "avoidance")
    /\ InitThreads("loop")

InitDetect ==
    /\ \E c \in DetInstances : InitManager(c, "detection")
    /\ InitThreads("loop")

Init == InitAvoid \/ InitDetect

Next ==
    \/ \E i \in Procs : WorkerLoop(i)
    \/ \E i \in Procs : WorkerRequest(i)
    \/ \E i \in Procs : WorkerNotified(i)
    \/ \E i \in Procs : WorkerExpired(i)
    \/ \E i \in Procs : WorkerDenied(i)
    \/ \E i \in Procs : WorkerGranted(i)
    \/ \E i \in Procs : WorkerFinish(i)
    \/ \E i \in Procs : WorkerRelease(i)
    \/ DetTick
    \/ DetSnapshot
    \/ DetBuild
    \/ DetVictim
    \/ DetAbort

Spec == Init /\ [][Next]_vars

\* ------------------------------------------------------------ the manager's API

\* Request vectors an API caller passes for process i: every component from
\* one below zero to one above the declared maximum.
ApiRequests(i) ==
    LET top == CHOOSE x \in {total[k] : k \in Res} : \A k \in Res : total[k] <= x
    IN  {r \in [Res -> -1..(top + 1)] : \A k \in Res : r[k] <= max[i][k] + 1}

\* What the caller holds when a manager call returns: the call, for request
\* its result and whether its argument was within 0..need[i], and whether
\* process i was alive when the lock was taken.
Returned(op, i, ok, valid) ==
    [op |-> op, i |-> i, ok |-> ok, valid |-> valid, was_alive |-> alive[i]]

WithinNeed(i, r) == \A k \in Res : 0 <= r[k] /\ r[k] <= need[i][k]

\* rm.request(i, r) or rm.request(i, r, timeout) called by the thread of process i
ApiRequest(i) ==
    /\ ret = NoRet
    /\ pc[i] = "idle"
    /\ \E r \in ApiRequests(i), t \in BOOLEAN :
          /\ Request(i, r, t, "enter")
          /\ IF pc'[i] = "waiting"
             THEN /\ req' = [req EXCEPT ![i] = r]
                  /\ timed' = [timed EXCEPT ![i] = t]
                  /\ ret' = NoRet
             ELSE /\ UNCHANGED <<req, timed>>
                  /\ ret' = Returned("request", i, pc'[i] = "granted", WithinNeed(i, r))
    /\ UNCHANGED <<cfgvars, graph, histvars, waiting_map, detvars>>

\* request: cv.wait returns because notify_all was called
ApiNotified(i) ==
    /\ ret = NoRet
    /\ pc[i] = "waiting" /\ notified[i]
    /\ Request(i, req[i], timed[i], "notified")
    /\ ret' = IF pc'[i] = "waiting"
              THEN NoRet
              ELSE Returned("request", i, pc'[i] = "granted", TRUE)
    /\ UNCHANGED <<cfgvars, graph, histvars, req, timed, waiting_map, detvars>>

\* request: cv.wait(timeout=remaining) returns because the time ran out
ApiExpired(i) ==
    /\ ret = NoRet
    /\ pc[i] = "waiting" /\ timed[i]
    /\ Request(i, req[i], timed[i], "expired")
    /\ ret' = Returned("request", i, pc'[i] = "granted", TRUE)
    /\ UNCHANGED <<cfgvars, graph, histvars, req, timed, waiting_map, detvars>>

\* rm.release_all(i) called by any thread
ApiReleaseAll(i) ==
    /\ ret = NoRet
    /\ ReleaseAll(i)
    /\ ret' = Returned("release_all", i, TRUE, TRUE)
    /\ UNCHANGED <<cfgvars, graph, histvars, thrvars, waiting_map, detvars>>

\* rm.mark_finished(i) called by any thread
ApiMarkFinished(i) ==
    /\ ret = NoRet
    /\ MarkFinished(i)
    /\ ret' = Returned("mark_finished", i, TRUE, TRUE)
    /\ UNCHANGED <<cfgvars, graph, histvars, thrvars, waiting_map, detvars>>

\* rm.abort(i) called by any thread
ApiAbort(i) ==
    /\ ret = NoRet
    /\ Abort(i)
    /\ ret' = Returned("abort", i, TRUE, TRUE)
    /\ UNCHANGED <<cfgvars, graph, histvars, thrvars, waiting_map, detvars>>

\* The caller takes the call's result; the request's locals die with the call.
ApiReturn ==
    /\ ret # NoRet
    /\ ret' = NoRet
    /\ IF ret.op = "request"
       THEN /\ pc' = [pc EXCEPT ![ret.i] = "idle"]
            /\ req' = [req EXCEPT ![ret.i] = ZeroVec]
            /\ timed' = [timed EXCEPT ![ret.i] = TRUE]
       ELSE UNCHANGED thrvars
    /\ UNCHANGED <<cfgvars, graph, histvars, mgrvars, notified, waiting_map, detvars>>

InitApi ==
    /\ \E c \in Instances \cup {ScenarioA}, md \in {"avoidance", "detection"} :
          InitManager(c, md)
    /\ InitThreads("idle")

NextApi ==
    \/ \E i \in Procs : ApiRequest(i)
    \/ \E i \in Procs : ApiNotified(i)
    \/ \E i \in Procs : ApiExpired(i)
    \/ \E i \in Procs : ApiReleaseAll(i)
    \/ \E i \in Procs : ApiMarkFinished(i)
    \/ \E i \in Procs : ApiAbort(i)
    \/ ApiReturn

SpecApi == InitApi /\ [][NextApi]_vars

\* The program in avoidance mode: main starts no detector
NextAvoid ==
    \/ \E i \in Procs : WorkerLoop(i)
    \/ \E i \in Procs : WorkerRequest(i)
    \/ \E i \in Procs : WorkerNotified(i)
    \/ \E i \in Procs : WorkerExpired(i)
    \/ \E i \in Procs : WorkerDenied(i)
    \/ \E i \in Procs : WorkerGranted(i)
    \/ \E i \in Procs : WorkerFinish(i)
    \/ \E i \in Procs : WorkerRelease(i)

SpecAvoid == InitAvoid /\ [][NextAvoid]_vars

\* Worker threads are scheduled by the operating system: a thread that can
\* take a step eventually takes one.
SpecAvoidFair == SpecAvoid /\ WF_vars(Worker(0)) /\ WF_vars(Worker(1))

\* Three processes in detection mode.  StaleInstance: one type of two units,
\* P1 may hold both while P0 and P2 need one each.  TieInstance: one unit of
\* each of two types, P0 needs the second only.  ReblockInstance: one type of
\* two units that every process needs both of.
StaleInstance ==
    [total |-> <<2, 1>>, max |-> (0 :> <<1, 0>> @@ 1 :> <<2, 0>> @@ 2 :> <<1, 0>>)]
TieInstance ==
    [total |-> <<1, 1>>, max |-> (0 :> <<0, 1>> @@ 1 :> <<1, 1>> @@ 2 :> <<1, 1>>)]
ReblockInstance ==
    [total |-> <<2, 1>>, max |-> (0 :> <<2, 0>> @@ 1 :> <<2, 0>> @@ 2 :> <<2, 0>>)]

InitStale == InitManager(StaleInstance, "detection") /\ InitThreads("loop")
InitTie == InitManager(TieInstance, "detection") /\ InitThreads("loop")
InitReblock == InitManager(ReblockInstance, "detection") /\ InitThreads("loop")

SpecStale == InitStale /\ [][Next]_vars
SpecTie == InitTie /\ [][Next]_vars
SpecReblock == InitReblock /\ [][Next]_vars

\* The program in detection mode: the workers and the detector thread
SpecDetect == InitDetect /\ [][Next]_vars

\* ... each of them a thread the operating system keeps scheduling.
SpecDetectFair ==
    SpecDetect /\ WF_vars(Worker(0)) /\ WF_vars(Worker(1)) /\ WF_vars(Detector)

\* ------------------------------------------------------------ find_cycle called directly

\* Adjacency lists over the nodes S: every list without repetition.
RECURSIVE AdjLists(_)
AdjLists(S) ==
    {<<>>} \cup UNION {{<<v>> \o l : l \in AdjLists(S \ {v})} : v \in S}

\* Graphs as find_cycle takes them: a dict with every node as a key.
Graphs == [0..(GraphNodes - 1) -> AdjLists(0..(GraphNodes - 1))]

\* A manager with one process per node; find_cycle is a static method and
\* reads none of it.
GraphInstance ==
    [total |-> <<1, 1>>, max |-> [i \in 0..(GraphNodes - 1) |-> <<1, 1>>]]

InitGraph ==
    /\ InitManager(GraphInstance, "detection")
    /\ pc = [i \in Procs |-> "idle"]
    /\ req = [i \in Procs |-> ZeroVec]
    /\ timed = [i \in Procs |-> TRUE]
    /\ waiting_map = <<>>
    /\ dpc = "stopped"
    /\ iters = 0
    /\ snap = <<>>
    /\ cyc = <<>>
    /\ victim = -1
    /\ graph \in Graphs
    /\ last_blocked = -1
    /\ last_alive = -1
    /\ ret = NoRet

\* cyc = ResourceManager.find_cycle(graph), called by any thread
FindCycleCall ==
    /\ ret = NoRet
    /\ graph # <<>>
    /\ cyc' = FindCycle(graph)
    /\ ret' = [NoRet EXCEPT !.op = "find_cycle"]
    /\ UNCHANGED <<cfgvars, graph, histvars, mgrvars, notified, thrvars, waiting_map,
                   dpc, iters, snap, victim>>

SpecGraph == InitGraph /\ [][FindCycleCall]_vars

\* ------------------------------------------------------------ properties

\* C1: resource conservation.  Whenever the manager lock is free, after any
\* interleaving of request, release_all, mark_finished and abort calls in
\* either mode, available[k] plus the units every process holds of type k
\* is total[k].
RECURSIVE SumAlloc(_, _)
SumAlloc(S, k) ==
    IF S = {} THEN 0
    ELSE LET i == CHOOSE x \in S : TRUE IN alloc[i][k] + SumAlloc(S \ {i}, k)

C1_Conservation == \A k \in Res : available[k] + SumAlloc(Procs, k) = total[k]

\* A release_all has just returned while another process still holds units.
C1_Witness ==
    /\ ret.op = "release_all"
    /\ \E j \in Procs \ {ret.i} : ~AllZero(alloc[j])
    /\ available # total

\* C2: allocation bounds and need consistency in the running program (one
\* worker per process, the detector interleaved): 0 <= alloc[i][k] <= max[i][k]
\* and need[i][k] = max[i][k] - alloc[i][k], also after release_all and abort.
C2_AllocNeed ==
    \A i \in Procs : \A k \in Res :
        /\ 0 <= alloc[i][k] /\ alloc[i][k] <= max[i][k]
        /\ need[i][k] = max[i][k] - alloc[i][k]

\* One process was aborted by the detector, the other finished and released.
C2_Witness ==
    \E i, j \in Procs : ~alive[i] /\ finished[j] /\ pc[j] = "exit" /\ alive[j]

\* C3: avoidance mode: right after every successful grant by request the
\* Banker's check with an all-zero request reports the state safe.
C3_SafeAfterEveryGrant ==
    [][\A i \in Procs :
          (pc[i] \in {"call", "waiting"} /\ pc'[i] = "granted")
          => SafeAfterGrant(available', alloc', need', finished', alive', i, ZeroVec)]_vars

\* A grant has just been made while the other process holds units and still
\* needs more.
C3_Witness ==
    \E i, j \in Procs :
        /\ i # j /\ pc[i] = "granted" /\ ~AllZero(alloc[i])
        /\ ~AllZero(alloc[j]) /\ ~AllZero(need[j]) /\ ~finished[j]

\* C4: avoidance-mode liveness.  With max[i][k] <= total[k] and fairly
\* scheduled workers every process eventually has finished = true, and no
\* process is ever aborted.
C4_AvoidanceLiveness ==
    /\ <>(\A i \in Procs : finished[i])
    /\ [](\A i \in Procs : alive[i])

\* Every worker has finished and exited in an instance where each process
\* declares the whole of every resource type, so that they had to take turns.
C4_Witness ==
    /\ \A i \in Procs : finished[i] /\ pc[i] = "exit" /\ AllZero(alloc[i])
    /\ \A i \in Procs : \A k \in Res : max[i][k] = total[k]

\* C5: avoidance-mode deadlock freedom.  While some process is alive and
\* unfinished, some process has a step that makes progress: a non-zero
\* request the worker can draw that would be granted, or a pending
\* mark_finished or release_all.
CanProgress(i) ==
    /\ alive[i]
    /\ \/ ~finished[i] /\ AllZero(need[i])
       \/ finished[i] /\ pc[i] # "exit"
       \/ ~finished[i] /\ \E r \in BoundedRandomRequest(need[i]) : Grantable(i, r)

C5_NoDeadlock ==
    (\E i \in Procs : alive[i] /\ ~finished[i]) => \E i \in Procs : CanProgress(i)

\* A worker is blocked on a request that cannot be granted now, and is not
\* itself able to progress with any request.
C5_Witness ==
    \E i \in Procs :
        /\ pc[i] = "waiting" /\ ~Grantable(i, req[i])
        /\ ~CanProgress(i)

\* Steps of the manager's API as seen by the caller of process i.  One thread
\* calls request for process i at a time: "idle" -> call, "waiting" is cv.wait.
CallEnters(i) == pc[i] = "idle" /\ pc'[i] # "idle"
WaitEnds(i) == pc[i] = "waiting" /\ (pc'[i] # "waiting" \/ (notified[i] /\ ~notified'[i]))
Grants(i) == pc[i] \in {"idle", "waiting"} /\ pc'[i] = "granted"
Denies(i) == pc[i] \in {"idle", "waiting"} /\ pc'[i] = "denied"
Blocks(i) == (CallEnters(i) \/ WaitEnds(i)) /\ pc'[i] = "waiting"

\* The rule of the specification for a request within need.
GrantRule(i, r) ==
    /\ \A k \in Res : r[k] <= available[k]
    /\ mode = "avoidance" => IsSafeAfterGrant(i, r)

WholeGrant(i, r) ==
    /\ available' = VSub(available, r)
    /\ alloc' = [alloc EXCEPT ![i] = VAdd(@, r)]
    /\ need' = [need EXCEPT ![i] = VSub(@, r)]

IsScenarioA == total = ScenarioA.total /\ max = ScenarioA.max
Running == \A i \in Procs : alive[i] /\ ~finished[i]

\* The scenario total=[3,3,2], P0 max=[3,0,0], P1 max=[0,3,2]: in the states
\* the three requests are made in, request can only end in a grant.
C6_Scenario ==
    (IsScenarioA /\ Running) =>
        /\ (alloc[0] = <<0, 0, 0>> /\ alloc[1] = <<0, 0, 0>>)
           => \A t \in BOOLEAN : Outcomes(0, <<2, 0, 0>>, t, "enter") = {"grant"}
        /\ (alloc[0] = <<2, 0, 0>> /\ alloc[1] = <<0, 0, 0>>)
           => \A t \in BOOLEAN : Outcomes(1, <<0, 3, 2>>, t, "enter") = {"grant"}
        /\ (alloc[0] = <<2, 0, 0>> /\ alloc[1] = <<0, 3, 2>>)
           => \A t \in BOOLEAN : Outcomes(0, <<1, 0, 0>>, t, "enter") = {"grant"}

\* ... and the grants leave available [1,3,2], [1,0,0], [0,0,0] in turn.
C6_ScenarioSteps ==
    (IsScenarioA /\ Running) =>
        /\ (alloc[0] = <<0, 0, 0>> /\ alloc[1] = <<0, 0, 0>>
            /\ Grants(0) /\ alloc'[0] = <<2, 0, 0>>) => available' = <<1, 3, 2>>
        /\ (alloc[0] = <<2, 0, 0>> /\ alloc[1] = <<0, 0, 0>>
            /\ Grants(1) /\ alloc'[1] = <<0, 3, 2>>) => available' = <<1, 0, 0>>
        /\ (alloc[0] = <<2, 0, 0>> /\ alloc[1] = <<0, 3, 2>>
            /\ Grants(0) /\ alloc'[0] = <<3, 0, 0>>) => available' = <<0, 0, 0>>

\* C6: grant rule.  For an alive, unfinished process and a request within its
\* need, an evaluation of request grants iff the request fits available and,
\* in avoidance mode only, the tentative state is safe; a grant subtracts the
\* request from available and need[i] and adds it to alloc[i] in one step.
\* The request vector of a grant is the growth of alloc[i]; that of a call
\* that blocks or is denied after waiting is the caller's req.
C6_GrantRule ==
    [][/\ C6_Scenario
       /\ C6_ScenarioSteps
       /\ \A i \in Procs :
            LET d == VSub(alloc'[i], alloc[i])
            IN  /\ Grants(i) =>
                      /\ alive[i] /\ ~finished[i]
                      /\ pc[i] = "waiting" => d = req[i]
                      /\ WithinNeed(i, d)
                      /\ GrantRule(i, d)
                      /\ WholeGrant(i, d)
                /\ (CallEnters(i) /\ pc'[i] = "waiting")
                      => (alive[i] /\ ~finished[i] /\ WithinNeed(i, req'[i])
                          /\ ~GrantRule(i, req'[i]))
                /\ (WaitEnds(i) /\ ~Grants(i) /\ alive[i] /\ ~finished[i])
                      => ~GrantRule(i, req[i])]_vars

\* The scenario's last grant has been made in avoidance mode.
C6_Witness ==
    /\ IsScenarioA /\ mode = "avoidance"
    /\ alloc[0] = <<3, 0, 0>> /\ alloc[1] = <<0, 3, 2>> /\ available = <<0, 0, 0>>
    /\ ret.op = "request" /\ ret.i = 0 /\ ret.ok

\* C7: invalid request.  A request with a negative component or a component
\* above need[i][k] returns False at once, never waits on the condition, and
\* leaves available, alloc, need, alive and finished (and the condition's
\* waiters) as they were, in both modes, with or without a timeout.
C7_InvalidRequest ==
    [][\A i \in Procs :
          CallEnters(i) =>
              LET invalid == IF pc'[i] = "waiting"
                             THEN ~WithinNeed(i, req'[i])
                             ELSE ~ret'.valid
              IN  invalid => /\ pc'[i] = "denied" /\ ~ret'.ok
                             /\ UNCHANGED <<mgrvars, notified>>]_vars

\* An invalid request has returned False while the other caller is blocked.
C7_Witness ==
    /\ ret.op = "request" /\ ~ret.valid /\ ~ret.ok
    /\ alive[ret.i] /\ ~finished[ret.i]
    /\ \E j \in Procs : pc[j] = "waiting"

\* C8: all-or-nothing requests.  A call of request that returns False (timeout,
\* aborted or finished while waiting or on entry) and a call that blocks leave
\* available, alloc and need untouched; a call that returns True has applied
\* its whole vector: no step applies a request for some resource types only.
C8_AllOrNothing ==
    [][\A i \in Procs :
          /\ Denies(i) => UNCHANGED <<available, alloc, need>>
          /\ Blocks(i) => UNCHANGED <<available, alloc, need>>
          /\ Grants(i) => /\ WholeGrant(i, VSub(alloc'[i], alloc[i]))
                          /\ pc[i] = "waiting" => alloc'[i] = VAdd(alloc[i], req[i])]_vars

\* A request that fits in one resource type and not in another has been denied
\* after waiting.
C8_Witness ==
    \E i \in Procs :
        /\ pc[i] = "denied" /\ ret.op = "request" /\ ret.i = i /\ ~ret.ok
        /\ alive[i] /\ ~finished[i]
        /\ \E k1, k2 \in Res :
              /\ req[i][k1] > 0 /\ req[i][k1] <= available[k1]
              /\ req[i][k2] > available[k2]

AbortReturns(i) == ret = NoRet /\ ret'.op = "abort" /\ ret'.i = i
ReleaseAllReturns(i) == ret = NoRet /\ ret'.op = "release_all" /\ ret'.i = i

\* C9: abort is idempotent.  After abort(i) the process is not alive, and
\* abort on a process that is not alive changes nothing, so a second abort(i)
\* leaves the state of the first.
C9_AbortIdempotent ==
    [][\A i \in Procs :
          AbortReturns(i) =>
              /\ ~alive'[i]
              /\ ~alive[i] => UNCHANGED <<mgrvars, notified, thrvars>>]_vars

\* An abort of a process that was no longer alive has returned while the
\* other process holds units.
C9_Witness ==
    /\ ret.op = "abort" /\ ~ret.was_alive /\ ~alive[ret.i]
    /\ \E j \in Procs : ~AllZero(alloc[j])

\* C10: release_all postcondition.  After release_all(i), and after abort(i)
\* on an alive process, alloc[i] is zero, need[i] = max[i], available has
\* grown by the former alloc[i]; the other rows and every flag but the
\* alive[i] that abort clears are unchanged.
Released(i) ==
    /\ AllZero(alloc'[i])
    /\ need'[i] = max[i]
    /\ available' = VAdd(available, alloc[i])
    /\ \A j \in Procs \ {i} : alloc'[j] = alloc[j] /\ need'[j] = need[j]
    /\ finished' = finished

C10_ReleaseAll ==
    [][\A i \in Procs :
          /\ ReleaseAllReturns(i) => Released(i) /\ alive' = alive
          /\ (AbortReturns(i) /\ alive[i])
                => Released(i) /\ alive' = [alive EXCEPT ![i] = FALSE]]_vars

\* release_all has returned for a running process; the other process holds
\* units and some units are free.
C10_Witness ==
    /\ ret.op = "release_all" /\ alive[ret.i] /\ ~finished[ret.i]
    /\ \E j \in Procs \ {ret.i} : ~AllZero(alloc[j])
    /\ ~AllZero(available)

\* The detection scenario: total=[1,1], P0 holds [1,0], P1 holds [0,1], both
\* running; DeadlockMap is the waiting map with P0's denied [0,1] and P1's
\* denied [1,0].
ScenarioD ==
    /\ mode = "detection" /\ total = <<1, 1>>
    /\ alloc = (0 :> <<1, 0>> @@ 1 :> <<0, 1>>)
    /\ \A i \in Procs : alive[i] /\ ~finished[i]

DeadlockMap == (0 :> <<0, 1>> @@ 1 :> <<1, 0>>)

\* The state the scenario's abort of process 0 leaves process 1 in.
Survivor1 ==
    /\ mode = "detection" /\ total = <<1, 1>>
    /\ ~alive[0] /\ alive[1] /\ ~finished[1]
    /\ alloc[1] = <<0, 1>> /\ need[1] = <<1, 0>>

\* What each step of a detector tick does in the scenario, and what request
\* answers process 1 afterwards.
C11_Steps ==
    /\ ScenarioD =>
          /\ BuildWaitForGraph(DeadlockMap) = (0 :> <<1>> @@ 1 :> <<0>>)
          /\ FindCycle(BuildWaitForGraph(DeadlockMap)) = <<0, 1, 0>>
          /\ ChooseVictim(FindCycle(BuildWaitForGraph(DeadlockMap))) = 0
    /\ (ScenarioD /\ dpc = "build" /\ snap = DeadlockMap /\ dpc' # "build")
          => (cyc' = <<0, 1, 0>> /\ dpc' = "victim")
    /\ (ScenarioD /\ dpc = "victim" /\ cyc = <<0, 1, 0>> /\ dpc' # "victim")
          => (victim' = 0 /\ dpc' = "abort")
    /\ (ScenarioD /\ dpc = "abort" /\ victim = 0 /\ dpc' # "abort")
          => (~alive'[0] /\ alive'[1] /\ alloc'[0] = <<0, 0>>
              /\ alloc'[1] = <<0, 1>> /\ available' = <<1, 0>>)
    /\ Survivor1 =>
          /\ BoundedRandomRequest(need[1]) = {<<1, 0>>}
          /\ \A t \in BOOLEAN : \A ph \in {"enter", "notified", "expired"} :
                Outcomes(1, <<1, 0>>, t, ph) = {"grant"}
          /\ (pc[1] \in {"call", "waiting"} /\ pc'[1] # pc[1]) => alloc'[1] = <<1, 1>>

\* C11: detection deadlock scenario.  With total=[1,1], P0 holding [1,0] with
\* denied request [0,1] and P1 holding [0,1] with denied request [1,0], both in
\* the waiting map, build_wait_for_graph yields exactly 0->1 and 1->0,
\* find_cycle reports a cycle over {0,1}, the detector tick that has started
\* aborts process 0 (equal allocation totals), and process 1's request [1,0]
\* is then granted.
C11_DetectionScenario ==
    /\ [][C11_Steps]_vars
    /\ (ScenarioD /\ waiting_map = DeadlockMap /\ dpc = "snapshot"
         /\ \A i \in Procs : pc[i] # "granted")
          ~> (~alive[0] /\ alive[1] /\ alloc[1] = <<1, 1>>)

\* Process 0 was aborted with its denied [0,1] on record, and process 1 has
\* just been granted [1,0] on top of its [0,1].
C11_Witness ==
    /\ total = <<1, 1>> /\ ~alive[0] /\ alive[1]
    /\ alloc[1] = <<1, 1>> /\ pc[1] = "granted"
    /\ DOMAIN waiting_map = {0, 1}
    /\ waiting_map[0] = <<0, 1>> /\ waiting_map[1] = <<1, 0>>

\* Directed graphs: successors, the nodes reachable in one or more steps, and
\* what it is for a list to be a cycle.
Succ(g, u) == {g[u][x] : x \in 1..Len(g[u])}

RECURSIVE ReachIn(_, _, _)
ReachIn(g, S, steps) ==
    IF steps = 0 THEN S
    ELSE ReachIn(g, S \cup UNION {Succ(g, u) : u \in S}, steps - 1)

ReachFrom(g, u) == ReachIn(g, Succ(g, u), Cardinality(DOMAIN g))

HasCycle(g) == \E u \in DOMAIN g : u \in ReachFrom(g, u)

IsCycle(g, c) ==
    /\ Len(c) >= 2
    /\ c[1] = c[Len(c)]
    /\ \A x \in 1..(Len(c) - 1) : c[x] \in DOMAIN g /\ c[x + 1] \in Succ(g, c[x])
    /\ \A x, y \in 1..(Len(c) - 1) : x # y => c[x] # c[y]

Ring3 == (0 :> <<1>> @@ 1 :> <<2>> @@ 2 :> <<0>>)
Chain3 == (0 :> <<1>> @@ 1 :> <<2>> @@ 2 :> <<>>)

\* C12: find_cycle correctness.  For every directed graph with every node as
\* a key, find_cycle returns None iff the graph has no directed cycle, and a
\* list it returns is a cycle of the graph: consecutive nodes are joined by
\* edges, it closes on its first node and no other node repeats.  For
\* {0:[1],1:[2],2:[0]} it is a rotation of [0,1,2]; for {0:[1],1:[2],2:[]} None.
C12_FindCycle ==
    ret.op = "find_cycle" =>
        /\ (cyc = <<>>) <=> ~HasCycle(graph)
        /\ cyc # <<>> => IsCycle(graph, cyc)
        /\ graph = Ring3 => cyc \in {<<0, 1, 2, 0>>, <<1, 2, 0, 1>>, <<2, 0, 1, 2>>}
        /\ graph = Chain3 => cyc = <<>>

\* find_cycle has returned a cycle that does not pass through node 0, found
\* after the search from node 0 ended without one.
C12_Witness ==
    /\ ret.op = "find_cycle"
    /\ cyc # <<>> /\ \A x \in 1..Len(cyc) : cyc[x] # 0
    /\ graph[0] # <<>>

\* C13: processes are never both finished and aborted.  Under any
\* interleaving of the worker loops and the detector loop in detection mode no
\* state has finished[i] and not alive[i] for the same process.
C13_NeverFinishedAndAborted == \A i \in Procs : ~(finished[i] /\ ~alive[i])

\* C14: an aborted worker does nothing further to the manager.  Once abort(i)
\* has set alive[i] to false, worker i obtains no grant, calls neither
\* mark_finished(i) nor release_all(i), and alloc[i] stays all zero.
C14_AbortedWorkerInert ==
    [][\A i \in Procs :
          ~alive[i] =>
              /\ ~(pc[i] # "granted" /\ pc'[i] = "granted")
              /\ ~(pc[i] = "finish" /\ pc'[i] = "release")
              /\ ~(pc[i] = "release" /\ pc'[i] = "exit")
              /\ AllZero(alloc[i]) /\ AllZero(alloc'[i])]_vars

\* C15: waiting-map accuracy.  In detection mode the waiting map has an entry
\* for process i only if i is alive, unfinished and its most recent request
\* was denied and not since granted; the entry goes in the same atomic step
\* as a successful grant; no entry exists for a process that has finished or
\* has exited after being aborted.  In avoidance mode the map is always empty.
C15_WaitingMapAccurate ==
    [][/\ mode = "avoidance" => waiting_map = <<>> /\ waiting_map' = <<>>
       /\ \A i \in DOMAIN waiting_map :
             alive[i] /\ ~finished[i] /\ pc[i] # "granted"
       /\ \A i \in Procs :
             (pc[i] # "granted" /\ pc'[i] = "granted") => i \notin DOMAIN waiting_map']_vars

\* C16: single-lock discipline.  Every access to available, alloc, need,
\* alive, finished and the waiting map happens with the manager lock held, so
\* the detector's copy of the waiting map, its graph build, its victim
\* selection and its abort observe one consistent state: what the tick holds
\* at each step is what the shared state gives at that step.
C16_ConsistentTick ==
    /\ dpc = "build" => snap = waiting_map
    /\ dpc \in {"victim", "abort"} => cyc = FindCycle(BuildWaitForGraph(waiting_map))
    /\ dpc = "abort" => victim = ChooseVictim(cyc)

\* The detector's steps that select and abort the victim, and the cycle's
\* members with the largest allocation total at the selection.
SelectsVictim == dpc = "victim" /\ dpc' = "abort"
AbortsVictim == dpc = "abort" /\ dpc' = "sleep"
Members(c) == {c[x] : x \in 1..(Len(c) - 1)}
Heaviest(c) == {i \in Members(c) : \A j \in Members(c) : VSum(alloc[j]) <= VSum(alloc[i])}

\* C17 as stated: the process a cycle-finding tick aborts is a member of the
\* cycle with the largest total allocation, and among members with equal
\* largest allocation the one with the lowest process id.
C17_VictimLowestId ==
    [][/\ SelectsVictim =>
             /\ victim' \in Heaviest(cyc)
             /\ \A j \in Heaviest(cyc) : victim' <= j
       /\ AbortsVictim => alive' = [alive EXCEPT ![victim] = FALSE]]_vars

\* C17, amended: the process a cycle-finding tick aborts is a member of the
\* cycle whose total allocation, as the detector reads it under the lock when
\* it selects the victim, is the largest among the members; among members
\* with equal largest allocation it is the one that comes first in the cycle
\* as find_cycle lists it.
C17_VictimFirstInCycle ==
    [][/\ SelectsVictim =>
             /\ victim' \in Heaviest(cyc)
             /\ \A j \in Heaviest(cyc) : IndexOf(cyc, victim') <= IndexOf(cyc, j)
       /\ AbortsVictim => alive' = [alive EXCEPT ![victim] = FALSE]]_vars

\* The detector has selected process 2 from the cycle [2,1,2], in which
\* process 1 holds as much.
C17_Witness ==
    /\ dpc = "abort" /\ victim = 2 /\ cyc = <<2, 1, 2>>
    /\ VSum(alloc[1]) = VSum(alloc[2])

\* build_wait_for_graph called directly: the manager in any state the calls
\* of its API can bring it to (units held within max and total, nothing held
\* by an aborted process, any process marked finished), the argument any
\* dict from processes to request vectors.
WaitingArgs == UNION {[D -> [Res -> 0..1]] : D \in SUBSET Procs}

InitBuild ==
    /\ mode = "detection"
    /\ total = GraphInstance.total
    /\ max = GraphInstance.max
    /\ alloc \in [Procs -> [Res -> 0..1]]
    /\ \A i \in Procs : \A k \in Res : alloc[i][k] <= max[i][k]
    /\ \A k \in Res : SumAlloc(Procs, k) <= total[k]
    /\ available = [k \in Res |-> total[k] - SumAlloc(Procs, k)]
    /\ need = [i \in Procs |-> VSub(max[i], alloc[i])]
    /\ alive \in [Procs -> BOOLEAN]
    /\ \A i \in Procs : ~alive[i] => AllZero(alloc[i])
    /\ finished \in [Procs -> BOOLEAN]
    /\ notified = [i \in Procs |-> FALSE]
    /\ pc = [i \in Procs |-> "idle"]
    /\ req = [i \in Procs |-> ZeroVec]
    /\ timed = [i \in Procs |-> TRUE]
    /\ waiting_map = <<>>
    /\ dpc = "stopped"
    /\ iters = 0
    /\ snap \in WaitingArgs
    /\ cyc = <<>>
    /\ victim = -1
    /\ graph = <<>>
    /\ last_blocked = -1
    /\ last_alive = -1
    /\ ret = NoRet

\* graph = rm.build_wait_for_graph(snap), called by any thread
BuildGraphCall ==
    /\ ret = NoRet
    /\ graph' = BuildWaitForGraph(snap)
    /\ ret' = [NoRet EXCEPT !.op = "build_wait_for_graph"]
    /\ UNCHANGED <<cfgvars, histvars, mgrvars, notified, thrvars,
                   waiting_map, dpc, iters, snap, cyc, victim>>

SpecBuild == InitBuild /\ [][BuildGraphCall]_vars

\* The edge i->j of the wait-for graph, as the specification defines it.
WaitsFor(w, i, j) ==
    /\ i \in DOMAIN w /\ alive[i] /\ ~finished[i]
    /\ i # j /\ alive[j] /\ ~finished[j]
    /\ \E k \in Res : w[i][k] > available[k] /\ alloc[j][k] > 0

\* C18: wait-for graph definition.  build_wait_for_graph(waiting) returns a
\* graph with a node for every process and an edge i->j exactly when i is in
\* waiting, alive and unfinished, j is another alive, unfinished process, and
\* for some type k waiting[i][k] > available[k] and alloc[j][k] > 0; no edge
\* is listed twice, no node points to itself, and no manager state changes.
C18_WaitForGraph ==
    [][(ret = NoRet /\ ret'.op = "build_wait_for_graph") =>
          /\ DOMAIN graph' = Procs
          /\ \A i, j \in Procs : InSeq(graph'[i], j) <=> WaitsFor(snap, i, j)
          /\ \A i \in Procs : \A x, y \in 1..Len(graph'[i]) :
                x # y => graph'[i][x] # graph'[i][y]
          /\ \A i \in Procs : ~InSeq(graph'[i], i)
          /\ UNCHANGED <<mgrvars, cfgvars, notified, waiting_map>>]_vars

\* The graph returned lists once a holder of both types that process i waits
\* for on both counts, and gives no edge to a waiting process that is marked
\* finished.
C18_Witness ==
    /\ ret.op = "build_wait_for_graph"
    /\ \E i, j \in Procs :
          /\ i \in DOMAIN snap /\ snap[i] = <<1, 1>> /\ alloc[j] = <<1, 1>>
          /\ graph[i] = <<j>>
    /\ \E i \in DOMAIN snap :
          /\ finished[i] /\ alive[i] /\ graph[i] = <<>>
          /\ \E k \in Res : snap[i][k] > available[k]

\* The units of type k held outside the set D.
HeldOutside(D, k) == SumAlloc(Procs \ D, k)

\* A real deadlock: a non-empty set of alive, unfinished processes, each with
\* its denied request on record (not overtaken by a grant), that could not be
\* granted even if every process outside the set released all it holds.
RealDeadlock(D) ==
    /\ D # {}
    /\ \A i \in D :
          /\ alive[i] /\ ~finished[i]
          /\ i \in DOMAIN waiting_map /\ pc[i] # "granted"
          /\ \E k \in Res : waiting_map[i][k] > available[k] + HeldOutside(D, k)

\* C19: no missed deadlock.  In detection mode, with max[i][k] <= total[k],
\* in every reachable state that is a real deadlock the graph that
\* build_wait_for_graph returns for the current waiting map has a directed
\* cycle, which find_cycle returns.
C19_NoMissedDeadlock ==
    (mode = "detection" /\ \E D \in SUBSET Procs : RealDeadlock(D)) =>
        LET g == BuildWaitForGraph(waiting_map)
        IN  HasCycle(g) /\ FindCycle(g) # <<>>

\* Processes 1 and 2 are deadlocked with each other while process 0, not part
\* of the deadlock, is running.
C19_Witness ==
    /\ RealDeadlock({1, 2})
    /\ alive[0] /\ ~finished[0] /\ 0 \notin DOMAIN waiting_map

\* ------------------------------------------------------------ C20

\* The number of alive processes
AliveCount == Cardinality({i \in Procs : alive[i]})

\* A detector tick finds a cycle
FindsCycle == dpc = "build" /\ dpc' = "victim"

\* C20 as stated: each cycle-finding tick aborts exactly one process that was
\* alive, and the number of alive and blocked processes is strictly smaller at
\* a cycle-finding tick than at the cycle-finding tick before it.
C20_BlockedDecreases ==
    [][ /\ AbortsVictim =>
              alive[victim] /\ alive' = [alive EXCEPT ![victim] = FALSE]
        /\ (FindsCycle /\ last_blocked >= 0) =>
              Cardinality(Blocked) < last_blocked ]_vars

\* C20, amended: in detection mode, each detector tick that finds a cycle
\* aborts exactly one process that was alive, so the number of alive processes
\* is strictly smaller at a cycle-finding tick than at the cycle-finding tick
\* before it; the number of alive and blocked processes need not be, since
\* processes block between ticks.
C20_AliveDecreases ==
    [][ /\ AbortsVictim =>
              /\ alive[victim]
              /\ alive' = [alive EXCEPT ![victim] = FALSE]
              /\ AliveCount' = last_alive - 1
        /\ (FindsCycle /\ last_alive >= 0) => AliveCount < last_alive ]_vars

\* C20: the second of two cycle-finding ticks in a row has found its cycle,
\* after the first aborted one of three processes, with both of the processes
\* left alive blocked.
C20_Witness ==
    /\ dpc = "victim"
    /\ last_alive = 2
    /\ last_blocked = 2
    /\ AliveCount = 2
    /\ iters = 2

\* ------------------------------------------------------------ C21

\* _is_safe_after_grant called as request calls it: the manager of three
\* processes in any state the calls of its API can bring it to (units held
\* within max and total, need = max - alloc, nothing held by an aborted
\* process, any process marked finished), for an alive, unfinished process i
\* and a request within need[i] that _can_grant accepts.
SafeInstances ==
    {[total |-> <<SafeUnits, 1>>, max |-> (0 :> r0 @@ 1 :> r1 @@ 2 :> r2)] :
        r0 \in Rows(<<SafeUnits, 1>>, SafeUnits),
        r1 \in Rows(<<SafeUnits, 1>>, SafeUnits),
        r2 \in Rows(<<SafeUnits, 1>>, SafeUnits)}

InitSafe ==
    /\ mode = "avoidance"
    /\ \E c \in SafeInstances : total = c.total /\ max = c.max
    /\ alloc \in [Procs -> [Res -> 0..SafeUnits]]
    /\ \A i \in Procs : \A k \in Res : alloc[i][k] <= max[i][k]
    /\ \A k \in Res : SumAlloc(Procs, k) <= total[k]
    /\ available = [k \in Res |-> total[k] - SumAlloc(Procs, k)]
    /\ need = [i \in Procs |-> VSub(max[i], alloc[i])]
    /\ alive \in [Procs -> BOOLEAN]
    /\ \A i \in Procs : ~alive[i] => AllZero(alloc[i])
    /\ finished \in [Procs -> BOOLEAN]
    /\ notified = [i \in Procs |-> FALSE]
    /\ pc = [i \in Procs |-> "idle"]
    /\ req = [i \in Procs |-> ZeroVec]
    /\ timed = [i \in Procs |-> TRUE]
    /\ waiting_map = <<>>
    /\ dpc = "stopped"
    /\ iters = 0
    /\ snap = <<>>
    /\ cyc = <<>>
    /\ victim = -1
    /\ graph = <<>>
    /\ last_blocked = -1
    /\ last_alive = -1
    /\ ret = NoRet

\* self._is_safe_after_grant(i, req) at its call in request; req keeps the
\* argument, ret the process and the result
IsSafeCall ==
    /\ ret = NoRet
    /\ \E i \in Procs, r \in [Res -> 0..SafeUnits] :
          /\ alive[i] /\ ~finished[i]
          /\ ~InvalidRequest(i, r)
          /\ CanGrant(i, r)
          /\ req' = [req EXCEPT ![i] = r]
          /\ ret' = [NoRet EXCEPT !.op = "_is_safe_after_grant", !.i = i,
                                  !.ok = IsSafeAfterGrant(i, r)]
    /\ UNCHANGED <<cfgvars, graph, histvars, mgrvars, notified, pc, timed,
                   waiting_map, detvars>>

SpecSafe == InitSafe /\ [][IsSafeCall]_vars

\* The processes that are neither finished nor aborted
Unfinished == {j \in Procs : ~finished[j] /\ alive[j]}

\* The orderings of a finite set: its repetition-free enumerations
Orderings(S) ==
    {s \in [1..Cardinality(S) -> S] : \A a, b \in DOMAIN s : s[a] = s[b] => a = b}

\* In the state after the grant of r to i, every process of the ordering s has
\* its remaining need within available - r plus the allocations of the
\* processes before it in s.
RECURSIVE HeldBy(_, _, _, _, _)
HeldBy(s, n, k, i, r) ==
    IF n = 0 THEN 0
    ELSE HeldBy(s, n - 1, k, i, r)
         + alloc[s[n]][k] + (IF s[n] = i THEN r[k] ELSE 0)

CompletesIn(s, i, r) ==
    \A n \in DOMAIN s : \A k \in Res :
        need[s[n]][k] - (IF s[n] = i THEN r[k] ELSE 0)
            <= available[k] - r[k] + HeldBy(s, n - 1, k, i, r)

SafeOrderExists(i, r) == \E s \in Orderings(Unfinished) : CompletesIn(s, i, r)

IsSafeReturns == ret = NoRet /\ ret'.op = "_is_safe_after_grant"

\* C21: safety check equals the existential definition.  _is_safe_after_grant
\* (i, req) returns true iff some ordering of the processes that are neither
\* finished nor aborted lets each one, in the post-grant state, meet its
\* remaining need from available - req plus the post-grant allocations of the
\* processes earlier in the ordering; and the call leaves the manager's state
\* as it was.
C21_SafetyCheckExistential ==
    [][IsSafeReturns =>
          /\ ret'.ok <=> SafeOrderExists(ret'.i, req'[ret'.i])
          /\ UNCHANGED mgrvars]_vars

\* The check has reported safe for a non-zero grant with all three processes
\* unfinished, where no completion order follows the process numbering: the
\* greedy scan had to come back to a process it had passed over.
C21_Witness ==
    /\ ret.op = "_is_safe_after_grant" /\ ret.ok
    /\ ~AllZero(req[ret.i])
    /\ Unfinished = Procs
    /\ LET i == ret.i
           r == req[ret.i]
       IN  \A s \in Orderings(Procs) :
              (s[1] < s[2] /\ s[2] < s[3]) => ~CompletesIn(s, i, r)

\* ------------------------------------------------------------ C22

\* The Banker's check applied to the current state with an all-zero request
\* (the process it is asked for does not matter then)
ReportsSafe == IsSafeAfterGrant(0, ZeroVec)

\* A process is between its mark_finished and its release_all: it is marked
\* finished and still holds units.
FinishedHolding(j) == finished[j] /\ ~AllZero(alloc[j])

\* C22 as stated: in every reachable state of an avoidance-mode run, also
\* between a process's mark_finished and its release_all, the Banker's check
\* with an all-zero request reports safe.
C22_SafeEverywhere == mode = "avoidance" => ReportsSafe

\* C22, amended: in every reachable state of an avoidance-mode run in which no
\* process is between its mark_finished and its release_all (after a grant,
\* after release_all, and after a mark_finished of a process that holds
\* nothing), the Banker's check with an all-zero request reports safe.
C22_SafeOutsideFinishWindow ==
    (mode = "avoidance" /\ \A j \in Procs : ~FinishedHolding(j)) => ReportsSafe

\* One worker has marked itself finished, released and exited while the other
\* holds units and still needs more.
C22_Witness ==
    /\ mode = "avoidance"
    /\ \E i, j \in Procs :
          /\ finished[i] /\ pc[i] = "exit" /\ AllZero(alloc[i])
          /\ ~finished[j] /\ ~AllZero(alloc[j]) /\ ~AllZero(need[j])

====
